---- MODULE Spec2Model ----
(***************************************************************************)
(* Bus transaction and primitive rasterization layer of Adafruit_SPITFT    *)
(* (hybrid hardware-SPI + parallel variant), Adafruit_SPITFT_SR.cpp.       *)
(*                                                                         *)
(* Every public operation of the driver is one action.  An operation acts  *)
(* on the driver's lines (CS, DC, WR), on the transport's transaction      *)
(* state and appends what it does on the bus to `bus`, the record of the   *)
(* call in progress: transport calls, pin levels and addressing-window     *)
(* calls, in program order.  Return is the call returning to the sketch:   *)
(* it clears the record, so `bus` always holds exactly one call.           *)
(*                                                                         *)
(* Serial.println() debug output goes to the UART, not to the display bus, *)
(* and is left out of the record.                                          *)
(***************************************************************************)
EXTENDS Integers, Sequences, FiniteSets, TLC

VARIABLES _width,   \* Adafruit_GFX::_width  (int16_t), fixed at construction
          _height,  \* Adafruit_GFX::_height (int16_t), fixed at construction
          inited,   \* initSPI() has run
          cs,       \* level of the chip-select line   (0 = LOW, 1 = HIGH)
          dc,       \* level of the data/command line
          wr,       \* level of the write-strobe line
          txn,      \* the transport has a transaction open
          freq,     \* hwspi.settings: clock of the transfer settings
          nested,   \* this call invoked beginTransaction with one still open
          bus,      \* bus record of the call in progress
          op,       \* the call in progress: its name, its arguments and the
                    \* driver state it was made in
          ret,      \* what the call in progress returned or left in the
                    \* sketch's buffers
          asked     \* the clock the sketch asked for last, with initSPI or
                    \* setSPISpeed (0 before initSPI)

vars == <<_width, _height, inited, cs, dc, wr, txn, freq, nested, bus, op,
          ret, asked>>

-----------------------------------------------------------------------------
(* Bounds of the model.                                                    *)

\* Width and height of the small surface on which every request is tried.
SmallW == 3
SmallH == 2
\* Largest numDataBytes tried by the command dispatch operations.
MaxData == 2
\* Number of pixels in the buffers given to swapBytes.
MaxBuf == 3

-----------------------------------------------------------------------------
(* Machine integers.                                                       *)

Int16Min == -(2^15)
Int16Max == 2^15 - 1

\* Conversion to int16_t: the sums of the clipping code are formed in int and
\* stored in int16_t variables, which keeps the low 16 bits (two's complement).
Int16(v) == ((v + 2^15) % 2^16) - 2^15
\* Conversion to uint8_t and uint16_t.
Uint8(v) == v % 2^8
Uint16(v) == v % 2^16

\* A uint32_t l is held as its two 16-bit halves, <<l >> 16, l & 0xFFFF>>.
\* (uint8_t)(l >> 8k), for k = 0..3:
ByteOf32(l, k) ==
    CASE k = 3 -> l[1] \div 2^8
      [] k = 2 -> l[1] % 2^8
      [] k = 1 -> l[2] \div 2^8
      [] k = 0 -> l[2] % 2^8

\* (uint32_t)w * h for int16_t w and h: the product modulo 2^32, which is the
\* product itself unless that is negative.
MulUint32(w, h) ==
    IF w * h >= 0 THEN w * h ELSE ((w * h + (2^31 - 1)) + (2^31 - 1)) + 2

LOW == 0
HIGH == 1

\* n copies of the sequence s, one after the other.
Repeat(s, n) == [i \in 1..(Len(s) * n) |-> s[((i - 1) % Len(s)) + 1]]

-----------------------------------------------------------------------------
(* The driver's state as a value, threaded through the operations.         *)

Cur == [cs |-> cs, dc |-> dc, wr |-> wr, txn |-> txn, freq |-> freq,
        nested |-> FALSE, bus |-> <<>>]

Emit(st, e) == [st EXCEPT !.bus = Append(@, e)]

-----------------------------------------------------------------------------
(* External collaborators: the transport peripheral, the digital I/O and   *)
(* the subclass's addressing-window setter.                                *)

\* hwspi._spi->beginTransaction(hwspi.settings)
beginTransaction(st) ==
    [st EXCEPT !.txn = TRUE,
               !.nested = @ \/ st.txn,
               !.bus = Append(@, <<"begin", st.freq>>)]

\* hwspi._spi->endTransaction()
endTransaction(st) ==
    [st EXCEPT !.txn = FALSE, !.bus = Append(@, <<"end", 0>>)]

\* hwspi._spi->transfer(uint8_t)
transfer(st, b) == Emit(st, <<"xfer", Uint8(b)>>)

\* hwspi._spi->transfer16(uint16_t)
transfer16(st, w) == Emit(st, <<"xfer16", Uint16(w)>>)

SPI_CS_HIGH(st) == [Emit(st, <<"cs", HIGH>>) EXCEPT !.cs = HIGH]
SPI_CS_LOW(st) == [Emit(st, <<"cs", LOW>>) EXCEPT !.cs = LOW]
SPI_DC_HIGH(st) == [Emit(st, <<"dc", HIGH>>) EXCEPT !.dc = HIGH]
SPI_DC_LOW(st) == [Emit(st, <<"dc", LOW>>) EXCEPT !.dc = LOW]

\* digitalWrite(tft8._wr, level)
digitalWriteWR(st, level) == [Emit(st, <<"wr", level>>) EXCEPT !.wr = level]

\* setAddrWindow(x, y, w, h) of the display-specific subclass.
setAddrWindow(st, x, y, w, h) == Emit(st, <<"win", <<x, y, w, h>>>>)

-----------------------------------------------------------------------------
(* Lowest-level hardware-interfacing functions.                            *)

TFT_WR_STROBE(st) == digitalWriteWR(digitalWriteWR(st, LOW), HIGH)

TFT_CS_STROBE(st) == SPI_CS_LOW(SPI_CS_HIGH(st))

SPI_BEGIN_TRANSACTION(st) == beginTransaction(st)

\* Mutant of SPI_END_TRANSACTION: the write strobe before the CS strobe.
SPI_END_TRANSACTION_WrFirst(st) ==
    TFT_CS_STROBE(TFT_WR_STROBE(endTransaction(st)))

SPI_END_TRANSACTION(st) == TFT_WR_STROBE(TFT_CS_STROBE(endTransaction(st)))

\* Mutant of spiWrite: the byte is transferred once.
spiWrite_Once(st, b) ==
    SPI_END_TRANSACTION(transfer(SPI_BEGIN_TRANSACTION(st), b))

spiWrite(st, b) ==
    SPI_END_TRANSACTION(transfer(transfer(SPI_BEGIN_TRANSACTION(st), b), b))

write16(st, w) ==
    SPI_END_TRANSACTION(
        transfer(transfer(SPI_BEGIN_TRANSACTION(st), w \div 2^8), w % 2^8))

\* Mutant of SPI_WRITE16: low byte first.
SPI_WRITE16_LowFirst(st, w) ==
    SPI_END_TRANSACTION(
        transfer(transfer(SPI_BEGIN_TRANSACTION(st), w % 2^8), w \div 2^8))

SPI_WRITE16(st, w) ==
    SPI_END_TRANSACTION(
        transfer(transfer(SPI_BEGIN_TRANSACTION(st), w \div 2^8), w % 2^8))

\* Mutant of SPI_WRITE32: the four bytes in one transaction.
SPI_WRITE32_OneTransaction(st, l) ==
    SPI_END_TRANSACTION(
        transfer(transfer(transfer(transfer(SPI_BEGIN_TRANSACTION(st),
            ByteOf32(l, 3)), ByteOf32(l, 2)), ByteOf32(l, 1)), ByteOf32(l, 0)))

SPI_WRITE32(st, l) ==
    LET hi == SPI_END_TRANSACTION(
                  transfer(transfer(SPI_BEGIN_TRANSACTION(st), ByteOf32(l, 3)),
                           ByteOf32(l, 2)))
    IN  SPI_END_TRANSACTION(
            transfer(transfer(SPI_BEGIN_TRANSACTION(hi), ByteOf32(l, 1)),
                     ByteOf32(l, 0)))

\* Mutant of writeCommand: data mode is not restored.
writeCommand_StaysInCommandMode(st, cmd) == spiWrite(SPI_DC_LOW(st), cmd)

writeCommand(st, cmd) == SPI_DC_HIGH(spiWrite(SPI_DC_LOW(st), cmd))

writeCommand16(st, cmd) == SPI_DC_HIGH(write16(SPI_DC_LOW(st), cmd))

startWrite(st) == SPI_BEGIN_TRANSACTION(st)

endWrite(st) == SPI_END_TRANSACTION(st)

-----------------------------------------------------------------------------
(* Pixel streaming.                                                        *)

\* while (len--) SPI_WRITE16(color).  Every pass of the loop puts the same
\* events on the bus, and leaves the lines and the transaction state as the
\* first pass leaves them: the record of len passes is len copies of the
\* record of one pass.
writeColor(st, color, len) ==
    IF len = 0 THEN st
    ELSE LET pass == SPI_WRITE16([st EXCEPT !.bus = <<>>], color)
         IN  [pass EXCEPT !.bus = st.bus \o Repeat(pass.bus, len)]

\* setAddrWindow(x, y, w, h); writeColor(color, (uint32_t)w * h);
writeFillRectPreclipped(st, x, y, w, h, color) ==
    writeColor(setAddrWindow(st, x, y, w, h), color, MulUint32(w, h))

-----------------------------------------------------------------------------
(* Edge clipping and rejection.  The statements below appear with the same *)
(* text in writeFillRect, writeFastHLine, writeFastVLine, fillRect,        *)
(* drawFastHLine and drawFastVLine (for x/w and for y/h).                  *)

\* Mutant of NonzeroExtent: || for &&.
NonzeroExtent_Either(w, h) == w # 0 \/ h # 0

\* if (w && h)
NonzeroExtent(w, h) == w # 0 /\ h # 0

\* Mutant of MoveToNearEdge: x += w.
MoveToNearEdge_NoPlusOne(x, w) == Int16(x + w)

\* x += w + 1;   (taken when w < 0)
MoveToNearEdge(x, w) == Int16(x + w + 1)

\* w = -w;       (taken when w < 0)
PositiveExtent(w) == Int16(-w)

\* Mutant of FarEdge: x2 = x + w.
FarEdge_OffByOne(x, w) == Int16(x + w)

\* int16_t x2 = x + w - 1;
FarEdge(x, w) == Int16(x + w - 1)

\* if (x < 0) { x = 0; w = x2 + 1; }: the extent after the near-edge clip
ClipNearExtent(x, w, x2) == IF x < 0 THEN Int16(x2 + 1) ELSE w

\* if (x < 0) { x = 0; ... }: the origin after the near-edge clip
ClipNearOrigin(x) == IF x < 0 THEN 0 ELSE x

\* Mutant of ClipFarExtent: the far edge is not clipped.
ClipFarExtent_NoClip(x, w, x2, limit) == w

\* if (x2 >= _width) { w = _width - x; }: the extent after the far-edge clip
ClipFarExtent(x, w, x2, limit) == IF x2 >= limit THEN Int16(limit - x) ELSE w

writeFillRect(st, x, y, w, h, color) ==
    IF NonzeroExtent(w, h)
    THEN LET xa == IF w < 0 THEN MoveToNearEdge(x, w) ELSE x
             wa == IF w < 0 THEN PositiveExtent(w) ELSE w
         IN  IF xa < _width
             THEN LET ya == IF h < 0 THEN MoveToNearEdge(y, h) ELSE y
                      ha == IF h < 0 THEN PositiveExtent(h) ELSE h
                  IN  IF ya < _height
                      THEN LET x2 == FarEdge(xa, wa)
                           IN  IF x2 >= 0
                               THEN LET y2 == FarEdge(ya, ha)
                                    IN  IF y2 >= 0
                                        THEN LET xb == ClipNearOrigin(xa)
                                                 wb == ClipNearExtent(xa, wa, x2)
                                                 yb == ClipNearOrigin(ya)
                                                 hb == ClipNearExtent(ya, ha, y2)
                                                 wc == ClipFarExtent(xb, wb, x2, _width)
                                                 hc == ClipFarExtent(yb, hb, y2, _height)
                                             IN  writeFillRectPreclipped(
                                                     st, xb, yb, wc, hc, color)
                                        ELSE st
                               ELSE st
                      ELSE st
             ELSE st
    ELSE st

writeFastHLine(st, x, y, w, color) ==
    IF y >= 0 /\ y < _height /\ w # 0
    THEN LET xa == IF w < 0 THEN MoveToNearEdge(x, w) ELSE x
             wa == IF w < 0 THEN PositiveExtent(w) ELSE w
         IN  IF xa < _width
             THEN LET x2 == FarEdge(xa, wa)
                  IN  IF x2 >= 0
                      THEN LET xb == ClipNearOrigin(xa)
                               wb == ClipNearExtent(xa, wa, x2)
                               wc == ClipFarExtent(xb, wb, x2, _width)
                           IN  writeFillRectPreclipped(st, xb, y, wc, 1, color)
                      ELSE st
             ELSE st
    ELSE st

writeFastVLine(st, x, y, h, color) ==
    IF x >= 0 /\ x < _width /\ h # 0
    THEN LET ya == IF h < 0 THEN MoveToNearEdge(y, h) ELSE y
             ha == IF h < 0 THEN PositiveExtent(h) ELSE h
         IN  IF ya < _height
             THEN LET y2 == FarEdge(ya, ha)
                  IN  IF y2 >= 0
                      THEN LET yb == ClipNearOrigin(ya)
                               hb == ClipNearExtent(ya, ha, y2)
                               hc == ClipFarExtent(yb, hb, y2, _height)
                           IN  writeFillRectPreclipped(st, x, yb, 1, hc, color)
                      ELSE st
             ELSE st
    ELSE st

writePixel(st, x, y, color) ==
    IF x >= 0 /\ x < _width /\ y >= 0 /\ y < _height
    THEN SPI_WRITE16(setAddrWindow(st, x, y, 1, 1), color)
    ELSE st

drawPixel(st, x, y, color) ==
    IF x >= 0 /\ x < _width /\ y >= 0 /\ y < _height
    THEN SPI_WRITE16(setAddrWindow(st, x, y, 1, 1), color)
    ELSE st

fillRect(st, x, y, w, h, color) ==
    IF NonzeroExtent(w, h)
    THEN LET xa == IF w < 0 THEN MoveToNearEdge(x, w) ELSE x
             wa == IF w < 0 THEN PositiveExtent(w) ELSE w
         IN  IF xa < _width
             THEN LET ya == IF h < 0 THEN MoveToNearEdge(y, h) ELSE y
                      ha == IF h < 0 THEN PositiveExtent(h) ELSE h
                  IN  IF ya < _height
                      THEN LET x2 == FarEdge(xa, wa)
                           IN  IF x2 >= 0
                               THEN LET y2 == FarEdge(ya, ha)
                                    IN  IF y2 >= 0
                                        THEN LET xb == ClipNearOrigin(xa)
                                                 wb == ClipNearExtent(xa, wa, x2)
                                                 yb == ClipNearOrigin(ya)
                                                 hb == ClipNearExtent(ya, ha, y2)
                                                 wc == ClipFarExtent(xb, wb, x2, _width)
                                                 hc == ClipFarExtent(yb, hb, y2, _height)
                                             IN  writeFillRectPreclipped(
                                                     st, xb, yb, wc, hc, color)
                                        ELSE st
                               ELSE st
                      ELSE st
             ELSE st
    ELSE st

drawFastHLine(st, x, y, w, color) ==
    IF y >= 0 /\ y < _height /\ w # 0
    THEN LET xa == IF w < 0 THEN MoveToNearEdge(x, w) ELSE x
             wa == IF w < 0 THEN PositiveExtent(w) ELSE w
         IN  IF xa < _width
             THEN LET x2 == FarEdge(xa, wa)
                  IN  IF x2 >= 0
                      THEN LET xb == ClipNearOrigin(xa)
                               wb == ClipNearExtent(xa, wa, x2)
                               wc == ClipFarExtent(xb, wb, x2, _width)
                           IN  writeFillRectPreclipped(st, xb, y, wc, 1, color)
                      ELSE st
             ELSE st
    ELSE st

drawFastVLine(st, x, y, h, color) ==
    IF x >= 0 /\ x < _width /\ h # 0
    THEN LET ya == IF h < 0 THEN MoveToNearEdge(y, h) ELSE y
             ha == IF h < 0 THEN PositiveExtent(h) ELSE h
         IN  IF ya < _height
             THEN LET y2 == FarEdge(ya, ha)
                  IN  IF y2 >= 0
                      THEN LET yb == ClipNearOrigin(ya)
                               hb == ClipNearExtent(ya, ha, y2)
                               hc == ClipFarExtent(yb, hb, y2, _height)
                           IN  writeFillRectPreclipped(st, x, yb, 1, hc, color)
                      ELSE st
             ELSE st
    ELSE st

pushColor(st, color) == SPI_WRITE16(st, color)

-----------------------------------------------------------------------------
(* Bitmaps.  A pointer into the sketch's memory is a record: mem describes *)
(* the array it points into (size words, word k holding base + k, and junk *)
(* what a read outside the array yields) and at is the index pointed at.   *)

\* *colors
Deref(colors) ==
    IF 0 <= colors.at /\ colors.at < colors.mem.size
    THEN Uint16(colors.mem.base + colors.at)
    ELSE colors.mem.junk

\* colors + n
Advance(colors, n) == [colors EXCEPT !.at = @ + n]

\* writePixels(colors, len): while (len--) SPI_WRITE16(*colors++);
RECURSIVE writePixels(_, _, _)
writePixels(st, colors, len) ==
    IF len = 0 THEN st
    ELSE writePixels(SPI_WRITE16(st, Deref(colors)), Advance(colors, 1),
                     len - 1)

\* while (h--) { writePixels(pcolors, w); pcolors += saveW; }
RECURSIVE drawRGBBitmapRows(_, _, _, _, _)
drawRGBBitmapRows(st, pcolors, w, h, saveW) ==
    IF h = 0 THEN st
    ELSE drawRGBBitmapRows(writePixels(st, pcolors, w),
                           Advance(pcolors, saveW), w, h - 1, saveW)

\* by1 * saveW + bx1, the offset of the clipped top-left within the bitmap.
BitmapOffset(by1, saveW, bx1) == by1 * saveW + bx1

\* drawRGBBitmap(x, y, pcolors, w, h).  The loop tests h-- as an int16_t and
\* so makes (uint16_t)h passes; writePixels is given (uint32_t)w, which is w
\* for the widths w >= 0 reaching it.
drawRGBBitmap(st, x, y, pcolors, w, h) ==
    IF x >= _width \/ y >= _height THEN st
    ELSE LET x2 == Int16(x + w - 1)
         IN  IF x2 < 0 THEN st
             ELSE LET y2 == Int16(y + h - 1)
                  IN  IF y2 < 0 THEN st
                      ELSE LET saveW == w
                               wa == IF x < 0 THEN Int16(w + x) ELSE w
                               bx1 == IF x < 0 THEN Int16(-x) ELSE 0
                               xa == IF x < 0 THEN 0 ELSE x
                               ha == IF y < 0 THEN Int16(h + y) ELSE h
                               by1 == IF y < 0 THEN Int16(-y) ELSE 0
                               ya == IF y < 0 THEN 0 ELSE y
                               wb == IF x2 >= _width THEN Int16(_width - xa)
                                     ELSE wa
                               hb == IF y2 >= _height THEN Int16(_height - ya)
                                     ELSE ha
                               p == Advance(pcolors,
                                            BitmapOffset(by1, saveW, bx1))
                           IN  drawRGBBitmapRows(
                                   setAddrWindow(st, xa, ya, wb, hb),
                                   p, wb, Uint16(hb), saveW)

-----------------------------------------------------------------------------
(* Functions that touch no hardware.                                       *)

NULL == "NULL"

\* Mutant of bswap16: the high byte of the result only.
bswap16_HighOnly(v) == (v % 2^8) * 2^8

\* __builtin_bswap16(v)
bswap16(v) == (v % 2^8) * 2^8 + (v \div 2^8)

\* for (uint32_t i = 0; i < len; i++) dest[i] = __builtin_bswap16(src[i]);
\* mem holds the sketch's buffers by name; src and dest name one each.
RECURSIVE swapBytesLoop(_, _, _, _, _)
swapBytesLoop(mem, src, dest, i, len) ==
    IF i >= len THEN mem
    ELSE swapBytesLoop(
             [mem EXCEPT ![dest][i + 1] = bswap16(mem[src][i + 1])],
             src, dest, i + 1, len)

\* swapBytes(src, len, dest): the sketch's buffers after the call.
swapBytes(mem, src, len, dest) ==
    swapBytesLoop(mem, src, IF dest = NULL THEN src ELSE dest, 0, len)

\* a & b and a | b, for a and b of at most 16 bits.
RECURSIVE BitAnd(_, _)
BitAnd(a, b) ==
    IF a = 0 \/ b = 0 THEN 0
    ELSE (a % 2) * (b % 2) + 2 * BitAnd(a \div 2, b \div 2)

RECURSIVE BitOr(_, _)
BitOr(a, b) ==
    IF a = 0 THEN b
    ELSE IF b = 0 THEN a
    ELSE ((a % 2) + (b % 2) - (a % 2) * (b % 2))
             + 2 * BitOr(a \div 2, b \div 2)

\* Mutant of color565: green masked to five bits.
color565_GreenFiveBits(red, green, blue) ==
    Uint16(BitOr(BitOr(BitAnd(red, 248) * 2^8, BitAnd(green, 248) * 2^3),
                 blue \div 2^3))

\* return ((red & 0xF8) << 8) | ((green & 0xFC) << 3) | (blue >> 3);
color565(red, green, blue) ==
    Uint16(BitOr(BitOr(BitAnd(red, 248) * 2^8, BitAnd(green, 252) * 2^3),
                 blue \div 2^3))

-----------------------------------------------------------------------------
(* Command dispatch.                                                       *)

\* The body of sendCommand's loop, run n times:
\* SPI_BEGIN_TRANSACTION(); SPI_WRITE16(commandByte); SPI_END_TRANSACTION();
RECURSIVE sendCommandLoop(_, _, _)
sendCommandLoop(st, commandByte, n) ==
    IF n = 0 THEN st
    ELSE sendCommandLoop(
             SPI_END_TRANSACTION(
                 SPI_WRITE16(SPI_BEGIN_TRANSACTION(st), commandByte)),
             commandByte, n - 1)

\* Mutant of sendCommand: the loop sends the first payload byte.
sendCommand_SendsPayload(st, commandByte, dataBytes, numDataBytes) ==
    sendCommandLoop(SPI_DC_HIGH(spiWrite(SPI_DC_LOW(st), commandByte)),
                    IF numDataBytes > 0 THEN dataBytes[1] ELSE commandByte,
                    numDataBytes)

\* sendCommand(uint8_t commandByte, uint8_t *dataBytes, uint8_t numDataBytes):
\* dataBytes is never read.
sendCommand(st, commandByte, dataBytes, numDataBytes) ==
    sendCommandLoop(SPI_DC_HIGH(spiWrite(SPI_DC_LOW(st), commandByte)),
                    commandByte, numDataBytes)

\* *(uint16_t *)dataBytes, for dataBytes pointing at byte i (from 0) of the
\* memory mem: a 16-bit load on a little-endian MCU (AVR, ESP8266, ESP32, ARM).
LoadWord(mem, i) == mem[i + 1] + mem[i + 2] * 2^8

\* The loop of the const overload, from pass i on:
\* SPI_WRITE16(*(uint16_t *)dataBytes); dataBytes += 2;
RECURSIVE sendCommandConstLoop(_, _, _, _)
sendCommandConstLoop(st, mem, i, numDataBytes) ==
    IF i >= numDataBytes THEN st
    ELSE sendCommandConstLoop(SPI_WRITE16(st, LoadWord(mem, 2 * i)),
                              mem, i + 1, numDataBytes)

\* sendCommand(uint8_t commandByte, const uint8_t *dataBytes,
\*             uint8_t numDataBytes).
\* dataBytes is the memory from the pointer on: the caller's buffer of
\* numDataBytes bytes, followed by whatever lies behind it.
sendCommandConst(st, commandByte, dataBytes, numDataBytes) ==
    sendCommandConstLoop(SPI_DC_HIGH(spiWrite(SPI_DC_LOW(st), commandByte)),
                         dataBytes, 0, numDataBytes)

\* Mutant of NextCommandWord: the command word is not incremented.
NextCommandWord_Same(commandWord) == commandWord

\* commandWord++;   (uint16_t)
NextCommandWord(commandWord) == Uint16(commandWord + 1)

\* The loop of sendCommand16, from pass i on.
RECURSIVE sendCommand16Loop(_, _, _, _)
sendCommand16Loop(st, commandWord, i, numDataBytes) ==
    IF i >= numDataBytes THEN st
    ELSE sendCommand16Loop(
             SPI_DC_HIGH(SPI_WRITE16(SPI_DC_LOW(st), commandWord)),
             NextCommandWord(commandWord), i + 1, numDataBytes)

\* sendCommand16(uint16_t commandWord, const uint8_t *dataBytes,
\*               uint8_t numDataBytes): dataBytes is never read.
sendCommand16(st, commandWord, dataBytes, numDataBytes) ==
    LET s0 == IF numDataBytes = 0
              THEN SPI_DC_HIGH(SPI_WRITE16(SPI_DC_LOW(st), commandWord))
              ELSE st
    IN  sendCommand16Loop(s0, commandWord, 0, numDataBytes)

\* readcommand8(commandByte, index): the bus part; the function returns 0.
readcommand8(st, commandByte, index) ==
    SPI_DC_HIGH(spiWrite(SPI_DC_LOW(st), commandByte))

\* The invert commands of the display, set by the subclass (ILI9341: INVON
\* and INVOFF).
invertOnCommand == 33
invertOffCommand == 32

\* invertDisplay(bool i)
invertDisplay(st, i) ==
    writeCommand(st, IF i THEN invertOnCommand ELSE invertOffCommand)

-----------------------------------------------------------------------------
(* Initialization.                                                         *)

\* Fallback clock of initSPI (Adafruit_SPITFT_SR.h).
DEFAULT_SPI_FREQ == 16000000

\* initSPI(freq, spiMode); hasRd and hasRst say whether the constructor was
\* given a read-strobe and a reset pin (tft8._rd >= 0, _rst >= 0).
initSPI(st, f, hasRd, hasRst) ==
    LET f1 == IF f = 0 THEN DEFAULT_SPI_FREQ ELSE f
        s1 == SPI_DC_HIGH(SPI_CS_LOW(st))
        s2 == [s1 EXCEPT !.freq = f1]
        s3 == TFT_CS_STROBE(
                  endTransaction(transfer16(beginTransaction(s2), 0)))
        s4 == digitalWriteWR(s3, HIGH)
        s5 == IF hasRd THEN Emit(s4, <<"rd", HIGH>>) ELSE s4
    IN  IF hasRst
        THEN Emit(Emit(Emit(s5, <<"rst", HIGH>>), <<"rst", LOW>>),
                  <<"rst", HIGH>>)
        ELSE s5

\* setSPISpeed(uint32_t freq): freq is not used.
setSPISpeed(st, f) == [st EXCEPT !.freq = DEFAULT_SPI_FREQ]

-----------------------------------------------------------------------------
(* Inputs.                                                                 *)

\* The surfaces: the small one, the 100 x 100 surface of the end-to-end
\* scenarios, and the 240 x 320 panel.
Surfaces == {<<SmallW, SmallH>>, <<100, 100>>, <<240, 320>>}

IsSmall == _width = SmallW /\ _height = SmallH

\* Coordinates and extents tried on the small surface: both ends of int16_t,
\* and everything from just outside one edge to just outside the other.
Coords(d) == {Int16Min, Int16Max} \cup (-1..d)
Extents(d) == {Int16Min, Int16Max} \cup ((-(d + 1))..(d + 1))

Colors == {2016, 43981}           \* 0x07E0, 0xABCD

\* Requests <<x, y, w, h, color>> tried on the two larger surfaces.
Scenarios ==
    IF _width = 100
    THEN { <<-10, 50, 30, 10, 2016>>,      \* clipped on the left
           <<90, 95, 20, 10, 43981>>,      \* clipped right and bottom
           <<20, 20, -30, -30, 2016>>,     \* negative extents
           <<150, 5, 1, 1, 2016>>,         \* off screen in x
           <<5, 150, 1, 1, 2016>>,         \* off screen in y
           <<5, 5, 1, 1, 43981>>,          \* one pixel
           <<50, 50, 32767, 1, 2016>>,     \* far edge beyond int16_t
           <<50, 50, 1, 32767, 2016>>,
           <<5, 7, 0, 3, 2016>>, <<5, 7, 3, 0, 2016>> }
    ELSE { <<0, 0, 240, 320, 43981>>,      \* the whole panel
           <<-1, -1, 300, 400, 2016>>,     \* larger than the panel
           <<239, 319, -240, -320, 2016>>, \* the whole panel, from the far corner
           <<300, 5, 1, 1, 2016>> }

RectRequests ==
    IF IsSmall
    THEN Coords(SmallW) \X Coords(SmallH) \X Extents(SmallW)
             \X Extents(SmallH) \X Colors
    ELSE Scenarios

\* <<x, y, w, color>> and <<x, y, h, color>>
HLineRequests == {<<r[1], r[2], r[3], r[5]>> : r \in RectRequests}
VLineRequests == {<<r[1], r[2], r[4], r[5]>> : r \in RectRequests}
\* <<x, y, color>>
PixelRequests == {<<r[1], r[2], r[5]>> : r \in RectRequests}

ByteSamples == {0, 1, 127, 128, 170, 187, 204, 221, 255}
Words16 == {hi * 2^8 + lo : hi \in ByteSamples, lo \in ByteSamples}
LongBytes == {0, 170, 187, 204, 221, 255}
\* The uint32_t with bytes b[1] (most significant) to b[4].
Long(b) == <<b[1] * 2^8 + b[2], b[3] * 2^8 + b[4]>>
\* Clocks given to initSPI: 0 asks for the default.
Freqs == {0, 8000000}
\* Clocks given to setSPISpeed.
Speeds == {4000000, 16000000}
\* Payload buffers of sendCommand, of numDataBytes bytes.
Buffers(n) == [1..n -> {17, 34}]

\* Bitmaps <<x, y, w, h>> drawn: on the small surface from every origin around
\* it, with every extent from none to one more than the surface and a width of
\* a whole int16_t; on the larger surfaces a few clipped at the edges.
BitmapRequests ==
    IF IsSmall
    THEN ({Int16Min} \cup (-2..SmallW)) \X ({Int16Min} \cup (-2..SmallH))
             \X ({Int16Max} \cup (0..(SmallW + 1))) \X (0..(SmallH + 1))
    ELSE IF _width = 100
         THEN { <<-1, 98, 3, 3>>, <<99, 99, 2, 2>>, <<150, 5, 2, 2>>,
                <<50, 0, 32767, 1>>, <<10, 10, 0, 2>> }
         ELSE { <<238, 318, 3, 3>>, <<-2, -2, 3, 3>> }

\* The array of w * h pixels a bitmap request points at, and what lies
\* outside it.
Bitmap(w, h, junk) == [base |-> 4660, size |-> w * h, junk |-> junk]
Junk == {0, 65535}

\* The buffers given to swapBytes: S, of every content, and D.
PixelSamples == {255, 4660, 43981}          \* 0x00FF, 0x1234, 0xABCD
SwapBuffers ==
    {[S |-> b, D |-> [i \in 1..MaxBuf |-> 48879]] :
         b \in [1..MaxBuf -> PixelSamples]}
\* Color components given to color565: around every bit that is dropped.
Components == {0, 3, 4, 7, 8, 128, 247, 248, 251, 252, 255}

\* What the memory behind a buffer of n bytes may hold, as far as the const
\* overload of sendCommand reads it (a read outside the buffer yields any
\* byte).
Beyond(n) == [1..n -> {0, 255}]

-----------------------------------------------------------------------------
(* The state machine.                                                      *)

NoCall == [name |-> "none", args |-> <<>>, pre |-> <<>>]

Init ==
    /\ \E s \in Surfaces : _width = s[1] /\ _height = s[2]
    /\ inited = FALSE
    /\ cs \in {LOW, HIGH} /\ dc \in {LOW, HIGH} /\ wr \in {LOW, HIGH}
    /\ txn = FALSE
    /\ freq = 0
    /\ nested = FALSE
    /\ bus = <<>>
    /\ op = NoCall
    /\ ret = <<>>
    /\ asked = 0

\* The state after a call: the driver state r it leaves, the call itself and
\* the value v it hands back to the sketch.
Result(name, args, r, v) ==
    /\ cs' = r.cs /\ dc' = r.dc /\ wr' = r.wr
    /\ txn' = r.txn /\ freq' = r.freq
    /\ nested' = r.nested /\ bus' = r.bus
    /\ op' = [name |-> name, args |-> args, pre |-> Cur]
    /\ ret' = v
    /\ UNCHANGED <<_width, _height>>

\* A call that hands nothing back.
Called(name, args, r) == Result(name, args, r, <<>>)

Ready == inited /\ op.name = "none"

DoInitSPI ==
    /\ ~inited /\ op.name = "none"
    /\ \E f \in Freqs, hasRd \in BOOLEAN, hasRst \in BOOLEAN :
           /\ Called("initSPI", <<f, hasRd, hasRst>>,
                     initSPI(Cur, f, hasRd, hasRst))
           /\ asked' = IF f = 0 THEN DEFAULT_SPI_FREQ ELSE f
    /\ inited' = TRUE

DoSetSPISpeed ==
    /\ Ready
    /\ \E f \in Speeds :
           /\ Called("setSPISpeed", <<f>>, setSPISpeed(Cur, f))
           /\ asked' = f
    /\ UNCHANGED inited

DoStartWrite ==
    /\ Ready /\ Called("startWrite", <<>>, startWrite(Cur))
    /\ UNCHANGED <<inited, asked>>

DoEndWrite ==
    /\ Ready /\ Called("endWrite", <<>>, endWrite(Cur))
    /\ UNCHANGED <<inited, asked>>

DoSpiWrite ==
    /\ Ready
    /\ \E b \in 0..255 : Called("spiWrite", <<b>>, spiWrite(Cur, b))
    /\ UNCHANGED <<inited, asked>>

DoWrite16 ==
    /\ Ready
    /\ \E w \in Words16 : Called("write16", <<w>>, write16(Cur, w))
    /\ UNCHANGED <<inited, asked>>

DoSPI_WRITE16 ==
    /\ Ready
    /\ \E w \in Words16 : Called("SPI_WRITE16", <<w>>, SPI_WRITE16(Cur, w))
    /\ UNCHANGED <<inited, asked>>

DoSPI_WRITE32 ==
    /\ Ready
    /\ \E b \in LongBytes \X LongBytes \X LongBytes \X LongBytes :
           Called("SPI_WRITE32", b, SPI_WRITE32(Cur, Long(b)))
    /\ UNCHANGED <<inited, asked>>

DoWriteCommand ==
    /\ Ready
    /\ \E c \in ByteSamples : Called("writeCommand", <<c>>, writeCommand(Cur, c))
    /\ UNCHANGED <<inited, asked>>

DoWriteCommand16 ==
    /\ Ready
    /\ \E c \in Words16 :
           Called("writeCommand16", <<c>>, writeCommand16(Cur, c))
    /\ UNCHANGED <<inited, asked>>

DoSendCommand ==
    /\ Ready
    /\ \E c \in ByteSamples, n \in 0..MaxData :
           \E d \in Buffers(n) :
               Called("sendCommand", <<c, d, n>>, sendCommand(Cur, c, d, n))
    /\ UNCHANGED <<inited, asked>>

DoSendCommandConst ==
    /\ Ready
    /\ \E c \in ByteSamples, n \in 0..MaxData :
           \E d \in Buffers(n), m \in Beyond(n) :
               Called("sendCommandConst", <<c, d, n, m>>,
                      sendCommandConst(Cur, c, d \o m, n))
    /\ UNCHANGED <<inited, asked>>

DoSendCommand16 ==
    /\ Ready
    /\ \E c \in Words16, n \in 0..MaxData :
           \E d \in Buffers(n) :
               Called("sendCommand16", <<c, d, n>>, sendCommand16(Cur, c, d, n))
    /\ UNCHANGED <<inited, asked>>

DoReadcommand8 ==
    /\ Ready
    /\ \E c \in ByteSamples, index \in 0..1 :
           Result("readcommand8", <<c, index>>, readcommand8(Cur, c, index), 0)
    /\ UNCHANGED <<inited, asked>>

DoInvertDisplay ==
    /\ Ready
    /\ \E i \in BOOLEAN : Called("invertDisplay", <<i>>, invertDisplay(Cur, i))
    /\ UNCHANGED <<inited, asked>>

DoWritePixel ==
    /\ Ready
    /\ \E r \in PixelRequests :
           Called("writePixel", r, writePixel(Cur, r[1], r[2], r[3]))
    /\ UNCHANGED <<inited, asked>>

DoWriteFillRect ==
    /\ Ready
    /\ \E r \in RectRequests :
           Called("writeFillRect", r,
                  writeFillRect(Cur, r[1], r[2], r[3], r[4], r[5]))
    /\ UNCHANGED <<inited, asked>>

DoWriteFastHLine ==
    /\ Ready
    /\ \E r \in HLineRequests :
           Called("writeFastHLine", r,
                  writeFastHLine(Cur, r[1], r[2], r[3], r[4]))
    /\ UNCHANGED <<inited, asked>>

DoWriteFastVLine ==
    /\ Ready
    /\ \E r \in VLineRequests :
           Called("writeFastVLine", r,
                  writeFastVLine(Cur, r[1], r[2], r[3], r[4]))
    /\ UNCHANGED <<inited, asked>>

DoDrawPixel ==
    /\ Ready
    /\ \E r \in PixelRequests :
           Called("drawPixel", r, drawPixel(Cur, r[1], r[2], r[3]))
    /\ UNCHANGED <<inited, asked>>

DoFillRect ==
    /\ Ready
    /\ \E r \in RectRequests :
           Called("fillRect", r, fillRect(Cur, r[1], r[2], r[3], r[4], r[5]))
    /\ UNCHANGED <<inited, asked>>

DoDrawFastHLine ==
    /\ Ready
    /\ \E r \in HLineRequests :
           Called("drawFastHLine", r,
                  drawFastHLine(Cur, r[1], r[2], r[3], r[4]))
    /\ UNCHANGED <<inited, asked>>

DoDrawFastVLine ==
    /\ Ready
    /\ \E r \in VLineRequests :
           Called("drawFastVLine", r,
                  drawFastVLine(Cur, r[1], r[2], r[3], r[4]))
    /\ UNCHANGED <<inited, asked>>

DoDrawRGBBitmap ==
    /\ Ready
    /\ \E r \in BitmapRequests, j \in Junk :
           LET pcolors == [mem |-> Bitmap(r[3], r[4], j), at |-> 0]
           IN  Called("drawRGBBitmap", <<r[1], r[2], pcolors, r[3], r[4]>>,
                      drawRGBBitmap(Cur, r[1], r[2], pcolors, r[3], r[4]))
    /\ UNCHANGED <<inited, asked>>

DoWritePixels ==
    /\ Ready
    /\ \E n \in 0..SmallW, len \in 0..SmallW :
           /\ len <= n
           /\ LET colors == [mem |-> Bitmap(n, 1, 0), at |-> 0]
              IN  Called("writePixels", <<colors, len>>,
                         writePixels(Cur, colors, len))
    /\ UNCHANGED <<inited, asked>>

DoSwapBytes ==
    /\ Ready
    /\ \E mem \in SwapBuffers, len \in 0..MaxBuf, dest \in {NULL, "S", "D"} :
           Result("swapBytes", <<mem, "S", len, dest>>, Cur,
                  swapBytes(mem, "S", len, dest))
    /\ UNCHANGED <<inited, asked>>

DoColor565 ==
    /\ Ready
    /\ \E red \in Components, green \in Components, blue \in Components :
           Result("color565", <<red, green, blue>>, Cur,
                  color565(red, green, blue))
    /\ UNCHANGED <<inited, asked>>

DoPushColor ==
    /\ Ready
    /\ \E c \in Colors : Called("pushColor", <<c>>, pushColor(Cur, c))
    /\ UNCHANGED <<inited, asked>>

\* The call returns: the record of the next call starts empty.
Return ==
    /\ op.name # "none"
    /\ op' = NoCall /\ bus' = <<>> /\ nested' = FALSE /\ ret' = <<>>
    /\ UNCHANGED <<_width, _height, inited, cs, dc, wr, txn, freq, asked>>

Next ==
    \/ DoInitSPI \/ DoSetSPISpeed \/ DoStartWrite \/ DoEndWrite
    \/ DoSpiWrite \/ DoWrite16 \/ DoSPI_WRITE16 \/ DoSPI_WRITE32
    \/ DoWriteCommand \/ DoWriteCommand16 \/ DoSendCommand
    \/ DoSendCommandConst \/ DoSendCommand16
    \/ DoReadcommand8 \/ DoInvertDisplay
    \/ DoWritePixel \/ DoWriteFillRect \/ DoWriteFastHLine \/ DoWriteFastVLine
    \/ DoDrawPixel \/ DoFillRect \/ DoDrawFastHLine \/ DoDrawFastVLine
    \/ DoDrawRGBBitmap \/ DoWritePixels \/ DoPushColor
    \/ DoSwapBytes \/ DoColor565
    \/ Return

Spec == Init /\ [][Next]_vars

-----------------------------------------------------------------------------
(* Reading the record of a call.                                           *)

Windows(b) == SelectSeq(b, LAMBDA e : e[1] = "win")
Xfers(b) == SelectSeq(b, LAMBDA e : e[1] = "xfer")
Begins(b) == SelectSeq(b, LAMBDA e : e[1] = "begin")
\* What the call did on the transport, in order.
Transport(b) ==
    SelectSeq(b, LAMBDA e : e[1] \in {"begin", "xfer", "xfer16", "end"})

RectOps == {"fillRect", "writeFillRect"}
HLineOps == {"drawFastHLine", "writeFastHLine"}
VLineOps == {"drawFastVLine", "writeFastVLine"}
PixelOps == {"drawPixel", "writePixel"}
ClipOps == RectOps \cup HLineOps \cup VLineOps
DrawOps == {"drawPixel", "fillRect", "drawFastHLine", "drawFastVLine"}

\* The rectangle a drawing call asks for, and its color.
Req ==
    LET a == op.args
    IN  CASE op.name \in RectOps ->
               [x |-> a[1], y |-> a[2], w |-> a[3], h |-> a[4], color |-> a[5]]
          [] op.name \in HLineOps ->
               [x |-> a[1], y |-> a[2], w |-> a[3], h |-> 1, color |-> a[4]]
          [] op.name \in VLineOps ->
               [x |-> a[1], y |-> a[2], w |-> 1, h |-> a[3], color |-> a[4]]
          [] op.name \in PixelOps ->
               [x |-> a[1], y |-> a[2], w |-> 1, h |-> 1, color |-> a[3]]

\* First and last coordinate covered from origin o with extent e # 0 (a
\* negative extent runs back from o), as integers.
Lo(o, e) == IF e < 0 THEN o + e + 1 ELSE o
Hi(o, e) == IF e < 0 THEN o ELSE o + e - 1

Max(a, b) == IF a >= b THEN a ELSE b
Min(a, b) == IF a <= b THEN a ELSE b

\* The requested rectangle has a pixel on the surface / none on it.
Overlaps(r) ==
    /\ r.w # 0 /\ r.h # 0
    /\ Lo(r.x, r.w) < _width /\ Hi(r.x, r.w) >= 0
    /\ Lo(r.y, r.h) < _height /\ Hi(r.y, r.h) >= 0
Outside(r) ==
    /\ r.w # 0 /\ r.h # 0
    /\ \/ Lo(r.x, r.w) >= _width \/ Hi(r.x, r.w) < 0
       \/ Lo(r.y, r.h) >= _height \/ Hi(r.y, r.h) < 0

\* The intersection of the requested rectangle with the surface, <<x, y, w, h>>.
Intersection(r) ==
    LET x1 == Max(Lo(r.x, r.w), 0)
        y1 == Max(Lo(r.y, r.h), 0)
    IN  <<x1, y1, Min(Hi(r.x, r.w), _width - 1) - x1 + 1,
                  Min(Hi(r.y, r.h), _height - 1) - y1 + 1>>

\* The record b is one addressing window win followed by exactly n pixel
\* words, each of them color sent high byte first.
OneFill(b, win, n, color) ==
    LET ws == Windows(b)
        xs == Xfers(b)
    IN  /\ Len(ws) = 1 /\ b[1] = <<"win", win>>
        /\ Len(Begins(b)) = n
        /\ Len(xs) = 2 * n
        /\ \A j \in 1..Len(xs) :
               xs[j][2] = IF j % 2 = 1 THEN color \div 2^8 ELSE color % 2^8

-----------------------------------------------------------------------------
(* C1: fillRect(x, y, w, h, color) with w > 0 and h > 0 whose rectangle    *)
(* overlaps the surface issues exactly one preclipped fill: its window is  *)
(* the intersection of the rectangle with the surface and every pixel word *)
(* streamed is color, one word per pixel of the window.                    *)
C1_FillRectClipsToIntersection ==
    (op.name = "fillRect" /\ Req.w > 0 /\ Req.h > 0 /\ Overlaps(Req))
        => LET win == Intersection(Req)
           IN  OneFill(bus, win, win[3] * win[4], Req.color)

(* C2: the rectangle a rectangle or line request hands to                  *)
(* writeFillRectPreclipped / setAddrWindow lies within the surface with    *)
(* extents of at least 1, and w' * h' pixel words are transferred after it.*)
C2_PreclippedWithinSurface ==
    op.name \in ClipOps =>
        LET ws == Windows(bus)
        IN  /\ Len(ws) <= 1
            /\ Len(ws) = 1 =>
                   LET r == ws[1][2]
                   IN  /\ 0 <= r[1] /\ 0 <= r[2] /\ r[3] >= 1 /\ r[4] >= 1
                       /\ r[1] + r[3] <= _width /\ r[2] + r[4] <= _height
                       /\ bus[1][1] = "win"
                       /\ Len(Begins(bus)) = r[3] * r[4]
                       /\ Len(Xfers(bus)) = 2 * r[3] * r[4]

\* A request reaching over the left edge of the 100 x 100 surface was clipped
\* to a window of 20 x 10 pixels and 200 pixel words were transferred.
C2_Witness ==
    /\ _width = 100 /\ op.name \in ClipOps /\ Overlaps(Req)
    /\ Req.x < 0
    /\ Windows(bus) = << <<"win", <<0, 50, 20, 10>>>> >>
    /\ Len(Begins(bus)) = 200

(* C3: a rectangle or line request with zero extent causes no bus activity:*)
(* no transport call, no setAddrWindow call and no change of the CS, DC or *)
(* WR lines or of the transaction state.                                   *)
C3_ZeroExtentNoBusActivity ==
    (op.name \in ClipOps /\ (Req.w = 0 \/ Req.h = 0))
        => /\ bus = <<>>
           /\ cs = op.pre.cs /\ dc = op.pre.dc /\ wr = op.pre.wr
           /\ txn = op.pre.txn

\* A request of zero width and nonzero height, placed on the surface, returned.
C3_Witness ==
    /\ op.name \in RectOps /\ Req.w = 0 /\ Req.h > 0
    /\ Req.x \in 0..(_width - 1) /\ Req.y \in 0..(_height - 1)
    /\ bus = <<>>

(* C4: a request whose normalized rectangle lies fully outside the surface *)
(* (left, right, above or below) makes fillRect, drawFastHLine,            *)
(* drawFastVLine and drawPixel issue nothing on the bus.                   *)
C4_OutsideNoBusActivity ==
    (op.name \in DrawOps /\ Outside(Req)) => bus = <<>>

\* drawPixel(150, 5, c) on the 100 x 100 surface returned.
C4_Witness ==
    /\ _width = 100 /\ _height = 100
    /\ op.name = "drawPixel" /\ Req.x = 150 /\ Req.y = 5
    /\ bus = <<>>

\* The explicit positive-extent request equivalent to r, and whether its
\* arguments are int16_t values.
Positive(r) ==
    [r EXCEPT !.x = Lo(r.x, r.w), !.w = IF r.w < 0 THEN -r.w ELSE r.w,
              !.y = Lo(r.y, r.h), !.h = IF r.h < 0 THEN -r.h ELSE r.h]
IsInt16(v) == Int16Min <= v /\ v <= Int16Max
Expressible(r) ==
    IsInt16(r.x) /\ IsInt16(r.y) /\ IsInt16(r.w) /\ IsInt16(r.h)

\* The record of the call named n for request r, made in state st.
RecordOf(n, st, r) ==
    CASE n = "fillRect" -> fillRect(st, r.x, r.y, r.w, r.h, r.color).bus
      [] n = "writeFillRect" ->
             writeFillRect(st, r.x, r.y, r.w, r.h, r.color).bus
      [] n = "drawFastHLine" -> drawFastHLine(st, r.x, r.y, r.w, r.color).bus
      [] n = "writeFastHLine" -> writeFastHLine(st, r.x, r.y, r.w, r.color).bus
      [] n = "drawFastVLine" -> drawFastVLine(st, r.x, r.y, r.h, r.color).bus
      [] n = "writeFastVLine" -> writeFastVLine(st, r.x, r.y, r.h, r.color).bus

(* C5: a rectangle or line request with a negative width and/or height     *)
(* puts on the bus exactly what the equivalent positive-extent request     *)
(* does (origin x + w + 1 with width -w, origin y + h + 1 with height -h), *)
(* whenever that request's arguments are int16_t values.                   *)
C5_NegativeExtentEquivalent ==
    (/\ op.name \in ClipOps
     /\ Req.w < 0 \/ Req.h < 0
     /\ Expressible(Positive(Req)))
        => bus = RecordOf(op.name, op.pre, Positive(Req))

\* fillRect with both extents negative drew a window.
C5_Witness ==
    /\ op.name = "fillRect" /\ Req.w < 0 /\ Req.h < 0
    /\ Expressible(Positive(Req))
    /\ Len(Windows(bus)) = 1
    /\ bus = RecordOf(op.name, op.pre, Positive(Req))

(* C6: at most one transport transaction is open at any time: no call    *)
(* invokes the transport's beginTransaction while a transaction begun      *)
(* before has not been ended.                                              *)
C6_NoNestedBegin == ~nested

(* C7: a self-contained draw entry point (drawPixel, fillRect,             *)
(* drawFastHLine, drawFastVLine) that programs the addressing window opens *)
(* one transaction before doing so and closes it after the last pixel      *)
(* word: the call's record is one begin, the window, the pixel transfers   *)
(* and one end after them.                                                 *)
C7_SingleBracketAroundDraw ==
    (op.name \in DrawOps /\ Len(Windows(bus)) > 0)
        => LET t == Transport(bus)
           IN  /\ bus[1][1] = "begin" /\ bus[2][1] = "win"
               /\ Len(Begins(bus)) = 1
               /\ t[Len(t)][1] = "end"
               /\ \A i \in 2..(Len(t) - 1) : t[i][1] = "xfer"

\* The bus record of one end of transaction: the transport's endTransaction,
\* chip-select HIGH then LOW, write-strobe LOW then HIGH.
EndRecord ==
    << <<"end", 0>>, <<"cs", HIGH>>, <<"cs", LOW>>, <<"wr", LOW>>,
       <<"wr", HIGH>> >>

EndsCommit(b) ==
    \A i \in 1..Len(b) :
        /\ b[i][1] \in {"xfer", "xfer16"}
               => i < Len(b) /\ b[i + 1][1] \in {"xfer", "xfer16", "end"}
        /\ b[i][1] = "end"
               => /\ i + 4 <= Len(b)
                  /\ b[i + 1] = <<"cs", HIGH>> /\ b[i + 2] = <<"cs", LOW>>
                  /\ b[i + 3] = <<"wr", LOW>> /\ b[i + 4] = <<"wr", HIGH>>

(* C11 as stated: every end of a transaction is the transport's            *)
(* endTransaction, then chip-select HIGH then LOW, then write-strobe LOW   *)
(* then HIGH, so that every byte or word transferred inside a transaction  *)
(* is followed by a CS strobe and a WR pulse before a later transaction    *)
(* begins.                                                                 *)
C11_EveryTransferCommitted == EndsCommit(bus)

(* C11, amended: the above holds of every operation made after initSPI     *)
(* (every end made by SPI_END_TRANSACTION / endWrite).  initSPI clears the *)
(* shift register in a transaction which it ends with the transport's      *)
(* endTransaction and a CS strobe, after which it sets the write strobe    *)
(* HIGH without pulsing it.                                                *)
C11_EndOfTransactionOrder ==
    IF op.name = "initSPI"
    THEN LET f == IF op.args[1] = 0 THEN DEFAULT_SPI_FREQ ELSE op.args[1]
         IN  SubSeq(bus, 3, 8) =
                 << <<"begin", f>>, <<"xfer16", 0>>, <<"end", 0>>,
                    <<"cs", HIGH>>, <<"cs", LOW>>, <<"wr", HIGH>> >>
    ELSE EndsCommit(bus)

\* pushColor(0xABCD) returned: its word is followed by the end of transaction.
C11_Witness ==
    /\ op.name = "pushColor" /\ op.args = <<43981>>
    /\ Len(bus) = 8
    /\ bus[3] = <<"xfer", 205>>
    /\ SubSeq(bus, 4, 8) = EndRecord

C13_ConstPayloadBytes ==
    op.name = "sendCommandConst" =>
        LET c == op.args[1]
            d == op.args[2]
            n == op.args[3]
            xs == Xfers(bus)
            data == SubSeq(xs, 3, Len(xs))
        IN  /\ SubSeq(bus, 1, 10) =
                   << <<"dc", LOW>>, <<"begin", op.pre.freq>>, <<"xfer", c>>,
                      <<"xfer", c>> >> \o EndRecord \o << <<"dc", HIGH>> >>
            /\ Len(data) = 2 * ((n + 1) \div 2)
            /\ \A k \in 1..(n \div 2) :
                   {data[2 * k - 1][2], data[2 * k][2]} = {d[2 * k - 1], d[2 * k]}
            /\ \A m \in Beyond(n) :
                   sendCommandConst(op.pre, c, d \o m, n).bus = bus

\* The record of one command word w written in command mode: DC low, the
\* word in a transaction of its own, DC high.
CommandWordRecord(w, f) ==
    << <<"dc", LOW>>, <<"begin", f>>, <<"xfer", w \div 2^8>>,
       <<"xfer", w % 2^8>> >> \o EndRecord \o << <<"dc", HIGH>> >>

C15_SpeedChangeTakesEffect ==
    /\ op.name = "setSPISpeed" => freq = op.args[1]
    /\ \A i \in 1..Len(bus) : bus[i][1] = "begin" => bus[i][2] = asked

\* The rectangle a drawRGBBitmap call asks for.
BitmapReq ==
    [x |-> op.args[1], y |-> op.args[2], w |-> op.args[4], h |-> op.args[5]]

(* C16: drawRGBBitmap(x, y, pcolors, w, h) with w = 0 or h = 0 causes no   *)
(* bus activity, and every window drawRGBBitmap programs has a width and a *)
(* height of at least 1 and lies within the surface.                       *)
C16_BitmapEdgeRejection ==
    op.name = "drawRGBBitmap" =>
        /\ (BitmapReq.w = 0 \/ BitmapReq.h = 0) => bus = <<>>
        /\ LET ws == Windows(bus)
           IN  \A i \in 1..Len(ws) :
                   LET r == ws[i][2]
                   IN  /\ 0 <= r[1] /\ 0 <= r[2] /\ r[3] >= 1 /\ r[4] >= 1
                       /\ r[1] + r[3] <= _width /\ r[2] + r[4] <= _height

(* C17: drawRGBBitmap(x, y, pcolors, w, h) with w > 0 and h > 0            *)
(* overlapping the surface programs the intersection of the bitmap with    *)
(* the surface as its window and streams its rows top to bottom, left to   *)
(* right: the word for surface pixel (sx, sy) is                           *)
(* pcolors[(sy - y) * w + (sx - x)], an index within [0, w * h), and       *)
(* clipped width * clipped height words are sent.                          *)
C17_BitmapStreamsClippedRows ==
    (/\ op.name = "drawRGBBitmap"
     /\ BitmapReq.w > 0 /\ BitmapReq.h > 0 /\ Overlaps(BitmapReq))
        => LET r == BitmapReq
               win == Intersection(r)
               n == win[3] * win[4]
               xs == Xfers(bus)
               Index(j) == (win[2] + ((j - 1) \div win[3]) - r.y) * r.w
                               + (win[1] + ((j - 1) % win[3]) - r.x)
           IN  /\ Windows(bus) = << <<"win", win>> >>
               /\ bus[1][1] = "win"
               /\ Len(xs) = 2 * n
               /\ \A j \in 1..n :
                      /\ 0 <= Index(j) /\ Index(j) < r.w * r.h
                      /\ xs[2 * j - 1][2] * 2^8 + xs[2 * j][2]
                             = Deref(Advance(op.args[3], Index(j)))

\* The call in progress has not touched the bus or the lines.
NoBusActivity ==
    /\ bus = <<>>
    /\ cs = op.pre.cs /\ dc = op.pre.dc /\ wr = op.pre.wr
    /\ txn = op.pre.txn /\ freq = op.pre.freq

(* C18: swapBytes is an involution and touches only the output buffer:     *)
(* applied twice in place (dest NULL or src) it restores the buffer; with  *)
(* a distinct dest, dest[i] is src[i] with its two bytes exchanged for     *)
(* i < len and src is unchanged; elements at index >= len are unchanged;   *)
(* and there is no bus or pin activity.                                    *)
C18_SwapBytesInvolution ==
    op.name = "swapBytes" =>
        LET mem == op.args[1]
            len == op.args[3]
            dest == op.args[4]
            out == IF dest = NULL THEN "S" ELSE dest
        IN  /\ out = "S" => swapBytes(ret, "S", len, dest) = mem
            /\ out = "D" => ret.S = mem.S
            /\ \A i \in 1..MaxBuf :
                   ret[out][i] =
                       IF i <= len
                       THEN (mem.S[i] % 2^8) * 2^8 + (mem.S[i] \div 2^8)
                       ELSE mem[out][i]
            /\ NoBusActivity

\* swapBytes(src, 2, NULL) on {0x1234, 0x00FF, 0xABCD} left
\* {0x3412, 0xFF00, 0xABCD}.
C18_Witness ==
    /\ op.name = "swapBytes" /\ op.args[3] = 2 /\ op.args[4] = NULL
    /\ op.args[1].S = <<4660, 255, 43981>>
    /\ ret.S = <<13330, 65280, 43981>>

(* C19: color565(red, green, blue) is                                      *)
(* (red >> 3) * 2048 + (green >> 2) * 32 + (blue >> 3), a value within     *)
(* 0..0xFFFF, and touches no hardware; color565(0, 0, 0) = 0x0000,         *)
(* color565(255, 255, 255) = 0xFFFF and color565(255, 0, 0) = 0xF800.      *)
C19_Color565Packs ==
    op.name = "color565" =>
        LET red == op.args[1]
            green == op.args[2]
            blue == op.args[3]
        IN  /\ ret = (red \div 8) * 2048 + (green \div 4) * 32 + (blue \div 8)
            /\ ret \in 0..65535
            /\ op.args = <<0, 0, 0>> => ret = 0
            /\ op.args = <<255, 255, 255>> => ret = 65535
            /\ op.args = <<255, 0, 0>> => ret = 63488
            /\ NoBusActivity

\* color565(255, 0, 0) returned 0xF800.
C19_Witness ==
    op.name = "color565" /\ op.args = <<255, 0, 0>> /\ ret = 63488

\* The operations that write a command opcode.
CommandOps ==
    {"writeCommand", "writeCommand16", "sendCommand", "sendCommandConst",
     "sendCommand16", "readcommand8", "invertDisplay"}

(* C20: once initSPI has completed, after the completion of every public   *)
(* operation the DC line is HIGH, the CS line is LOW and the WR line is    *)
(* HIGH; DC is LOW only while a command opcode is being written: only      *)
(* command operations set DC, and each time DC goes LOW one opcode is      *)
(* written in its transaction and DC goes HIGH directly after that         *)
(* transaction's end.                                                      *)
C20_QuiescentLines ==
    inited =>
        /\ dc = HIGH /\ cs = LOW /\ wr = HIGH
        /\ op.name # "initSPI" =>
               \A i \in 1..Len(bus) :
                   /\ bus[i][1] = "dc" => op.name \in CommandOps
                   /\ bus[i] = <<"dc", LOW>> =>
                          /\ i + 9 <= Len(bus)
                          /\ bus[i + 1][1] = "begin"
                          /\ bus[i + 2][1] = "xfer" /\ bus[i + 3][1] = "xfer"
                          /\ SubSeq(bus, i + 4, i + 8) = EndRecord
                          /\ bus[i + 9] = <<"dc", HIGH>>

\* invertDisplay(true) returned: DC went LOW for the opcode and is HIGH again.
C20_Witness ==
    /\ inited /\ op.name = "invertDisplay" /\ op.args = <<TRUE>>
    /\ bus[1] = <<"dc", LOW>> /\ bus[3] = <<"xfer", invertOnCommand>>
    /\ dc = HIGH /\ cs = LOW /\ wr = HIGH

\* The normalization and the far edge of one axis, for origin o, extent e and
\* surface extent limit, are the mathematical values: x += w + 1, w = -w (for
\* a negative extent) and x2 = x + w - 1 (computed once the origin is found
\* before the far side of the surface).
AxisExact(o, e, limit) ==
    LET oa == IF e < 0 THEN MoveToNearEdge(o, e) ELSE o
        ea == IF e < 0 THEN PositiveExtent(e) ELSE e
    IN  /\ e < 0 => oa = o + e + 1 /\ ea = -e
        /\ oa < limit => FarEdge(oa, ea) = oa + ea - 1

(* C21: the 16-bit signed clipping arithmetic never wraps: for all int16_t *)
(* x, y, w, h given to fillRect, writeFillRect, drawFastHLine and          *)
(* drawFastVLine the normalization and the far edges x2 = x + w - 1 and    *)
(* y2 = y + h - 1 are their mathematical values, so that no rectangle      *)
(* overlapping the surface is rejected and none wholly outside it is       *)
(* drawn.                                                                  *)
C21_ClippingNeverWraps ==
    (/\ op.name \in {"fillRect", "writeFillRect", "drawFastHLine",
                      "drawFastVLine"}
     /\ Req.w # 0 /\ Req.h # 0)
        => /\ Overlaps(Req) => Len(Windows(bus)) = 1
           /\ Outside(Req) => bus = <<>>
           /\ op.name \in RectOps \cup HLineOps
                  => AxisExact(Req.x, Req.w, _width)
           /\ op.name \in RectOps \cup VLineOps
                  => AxisExact(Req.y, Req.h, _height)

====
